---- MODULE Spec2Model ----
(***************************************************************************)
(* Ownership-aware book service of bookstore-app: services/bookService.js  *)
(* (createBook, getBookByIdForUser, updateBook, deleteBookAsAdmin,         *)
(* deleteUploadedFile), its controllers (controllers/bookController.js)    *)
(* and the multer disk storage of routes/bookRoutes.js.                    *)
(*                                                                         *)
(* State: the Book collection, the files of uploads/, the fs.unlink calls  *)
(* that have been issued and have not completed yet, the clock read by     *)
(* Date.now(), the request being received, the update requests that are    *)
(* awaiting findByIdAndUpdate, the response of the step just taken and the *)
(* number of requests received so far.                                     *)
(*                                                                         *)
(* A request passes authMiddleware, which answers 401 or sets req.user,    *)
(* and is then taken as it reaches its controller, multer having stored    *)
(* the upload. The createdBy path of a book is the one bookService.js      *)
(* reads and writes.                                                       *)
(*                                                                         *)
(* SpecS3 is the S3 server of controllers/book.js over the same state,     *)
(* with the bucket in place of uploads/, and updateBookWithS3Key of        *)
(* controllers/bookS3Client.js. SpecNoFailure is the service without       *)
(* failing database calls and unlinks, with two updates in flight.         *)
(* SpecYear is the validated routes for one request with any year string,  *)
(* SpecDeleteRace two deletes of an admin in flight together, SpecMemory   *)
(* the in-memory prototype of models/books.js.                             *)
(***************************************************************************)
EXTENDS Integers, Sequences, FiniteSets, TLC

\* Number of ObjectIds the Book collection can hand out.
MaxBooks == 2
\* Number of distinct values Date.now() takes.
MaxClock == 2
\* Number of requests that can be awaiting the database at once.
MaxInFlight == 2
\* Number of requests a behaviour serves.
MaxRequests == 3

VARIABLES books, files, unlinks, now, nextId, cur, reqs, resp, served

vars == <<books, files, unlinks, now, nextId, cur, reqs, resp, served>>

(***************************************************************************)
(* JavaScript values.                                                      *)
(***************************************************************************)
Undefined == <<"undefined">>
Null == <<"null">>
NaN == <<"NaN">>
\* A string, given as its sequence of characters ("" is <<>>).
Str(s) == <<"str", s>>
Num(n) == <<"num", n>>
\* A key that an object literal does not have.
Absent == <<"absent">>

\* !v for the values a request field can take.
Falsy(v) == v \in {Undefined, Null, Absent, Str(<<>>)}

\* String(s).trim() on a string given as a sequence of characters.
RECURSIVE TrimLeft(_)
TrimLeft(s) ==
  IF s # <<>> /\ Head(s) = " " THEN TrimLeft(Tail(s)) ELSE s

RECURSIVE TrimRight(_)
TrimRight(s) ==
  IF s # <<>> /\ s[Len(s)] = " " THEN TrimRight(SubSeq(s, 1, Len(s) - 1)) ELSE s

Trim(s) == TrimRight(TrimLeft(s))

Digits == <<"0", "1", "2", "3", "4", "5", "6", "7", "8", "9">>

DigitValue(c) == (CHOOSE i \in 1..10 : Digits[i] = c) - 1

IsDigit(c) == \E i \in 1..10 : Digits[i] = c

RECURSIVE DecimalValue(_)
DecimalValue(s) ==
  IF s = <<>> THEN 0
  ELSE 10 * DecimalValue(SubSeq(s, 1, Len(s) - 1)) + DigitValue(s[Len(s)])

\* A number that is not an integer, given by its literal.
Frac(s) == <<"frac", s>>

AllDigits(s) == \A i \in 1..Len(s) : IsDigit(s[i])

\* Number(v) for a string of characters over digits, sign, point and other
\* characters (no exponent, no radix prefix): blank is 0, a decimal literal
\* with an optional sign is its value, anything else is NaN.
Number(s) ==
  LET t == Trim(s)
      signed == t # <<>> /\ t[1] \in {"-", "+"}
      u == IF signed THEN Tail(t) ELSE t
      sign == IF signed /\ t[1] = "-" THEN -1 ELSE 1
      dots == {i \in 1..Len(u) : u[i] = "."}
      dot == CHOOSE i \in dots : TRUE
      whole == SubSeq(u, 1, dot - 1)
      frac == SubSeq(u, dot + 1, Len(u))
  IN
    IF t = <<>> THEN Num(0)
    ELSE IF u # <<>> /\ AllDigits(u) THEN Num(sign * DecimalValue(u))
    ELSE IF Cardinality(dots) = 1 /\ AllDigits(whole) /\ AllDigits(frac) /\ Len(u) > 1
      THEN IF \A i \in 1..Len(frac) : frac[i] = "0"
             THEN Num(sign * DecimalValue(whole))
           ELSE Frac(t)
    ELSE NaN

(***************************************************************************)
(* Identities (req.user, set by authMiddleware) and ids.                   *)
(***************************************************************************)
Users == {"u1", "u2", "adm"}

Role(u) == IF u = "adm" THEN "admin" ELSE "user"

\* ObjectIds the collection hands out; 0 stands for a malformed id string.
BookIds == 1..MaxBooks

IdIn == 0..MaxBooks

IsValidObjectId(id) == id \in BookIds

(***************************************************************************)
(* Errors thrown by the service: name, message and the status it carries   *)
(* (0 when err.status is not set).                                         *)
(***************************************************************************)
ServiceError(status, message) ==
  [name |-> "Error", message |-> message, status |-> status]

ValidationError ==
  [name |-> "ValidationError", message |-> "Book validation failed", status |-> 400]

NoError == [name |-> "", message |-> "", status |-> 0]

(***************************************************************************)
(* Attachment store on local disk.                                         *)
(***************************************************************************)
\* multer diskStorage filename: `${file.fieldname}-${Date.now()}${ext}` in
\* uploads/, for the field coverImage and one extension.
Filename(t) == Str(<<"coverImage-", t>>)

\* req.file.path, or undefined when the request carries no file.
UploadPath(hasFile, t) == IF hasFile THEN Filename(t) ELSE Undefined

\* multer writes the uploaded file, replacing a file of the same name.
StoreFile(fs, p) == IF p = Undefined THEN fs ELSE fs \cup {p}

\* deleteUploadedFile with the early return taken when there is a path.
DeleteUploadedFile_Inverted(pending, filePath) ==
  IF ~Falsy(filePath) THEN pending ELSE pending \cup {filePath}

\* deleteUploadedFile(filePath): returns at once when there is no path, else
\* issues fs.unlink, which completes later (FsUnlink).
DeleteUploadedFile(pending, filePath) ==
  IF Falsy(filePath) THEN pending ELSE pending \cup {filePath}

(***************************************************************************)
(* createBook.                                                             *)
(***************************************************************************)
\* The year stored by createBook: undefined when none is given, else
\* Number(year), which may be NaN.
ParsedYear(year) ==
  IF year \in {Undefined, Null} THEN Undefined
  ELSE IF Trim(year[2]) = <<>> THEN Undefined
  ELSE Number(year[2])

\* The error createBook throws before it saves, or NoError.
CreateBookReject(bookData) ==
  IF Falsy(bookData.title) \/ Falsy(bookData.author)
    THEN ServiceError(0, "Missing required fields: title, author")
  ELSE IF ParsedYear(bookData.year) = NaN
    THEN ServiceError(0, "Year must be a number if provided")
  ELSE NoError

\* The book created with the coverImage of the body where there is one.
NewBook_FromBody(bookData, coverImage, userId) ==
  [title |-> bookData.title, author |-> bookData.author,
   year |-> ParsedYear(bookData.year),
   coverImage |-> IF bookData.coverImageAction # Undefined
                    THEN bookData.coverImageAction ELSE coverImage,
   createdBy |-> userId]

\* new Book({title, author, year: parsedYear, coverImage, createdBy: userId})
NewBook(bookData, coverImage, userId) ==
  [title |-> bookData.title, author |-> bookData.author,
   year |-> ParsedYear(bookData.year), coverImage |-> coverImage,
   createdBy |-> userId]

\* The status createBookController answers for an error of createBook.
CreateHttpStatus(err) ==
  IF err.message = "Year must be a number if provided" THEN 400
  ELSE IF err.name = "ValidationError" THEN 400
  ELSE 500

\* createBookController's catch deletes the upload again unless it has
\* answered 400.
CreateControllerCleanup(pending, err, coverImagePath) ==
  IF CreateHttpStatus(err) = 400 THEN pending
  ELSE DeleteUploadedFile(pending, coverImagePath)

(***************************************************************************)
(* getBookByIdForUser.                                                     *)
(***************************************************************************)
\* TRUE when getBookByIdForUser returns the book rather than null.
CanRead(coll, bookId, userId, userRole) ==
  /\ bookId \in DOMAIN coll
  /\ \/ userRole = "admin"
     \/ coll[bookId].createdBy = userId

\* getBookByIdController answering "Access Denied" where it has no book to
\* return.
GetHttpStatus_AccessDenied(coll, bookId, userId, userRole, dbOk) ==
  IF ~IsValidObjectId(bookId) THEN 400
  ELSE IF ~dbOk THEN 500
  ELSE IF CanRead(coll, bookId, userId, userRole) THEN 200
  ELSE 403

\* The status getBookByIdController answers.
GetHttpStatus(coll, bookId, userId, userRole, dbOk) ==
  IF ~IsValidObjectId(bookId) THEN 400
  ELSE IF ~dbOk THEN 500
  ELSE IF CanRead(coll, bookId, userId, userRole) THEN 200
  ELSE 404

\* getBooks returning every book to every role.
GetBooks_All(coll, userId, userRole) == DOMAIN coll

\* getBooks: the ids of the books Book.find() returns to an admin, and
\* Book.find({createdBy: userId}) to any other role.
GetBooks(coll, userId, userRole) ==
  IF userRole = "admin" THEN DOMAIN coll
  ELSE {i \in DOMAIN coll : coll[i].createdBy = userId}

(***************************************************************************)
(* updateBook.                                                             *)
(***************************************************************************)
\* TRUE when updateData.year is given, is not blank and is not a number.
YearIsNaN(updateData) ==
  /\ updateData.year # Undefined
  /\ Trim(updateData.year[2]) # <<>>
  /\ Number(updateData.year[2]) = NaN

\* TRUE when the request asks to clear the cover image.
ClearRequested(updateData) ==
  updateData.coverImageAction \in {Str(<<>>), Null}

\* finalUpdatePayload with the clear branch tested ahead of the upload.
FinalUpdatePayload_ClearFirst(updateData, newCoverImagePath) ==
  [title |-> IF updateData.title # Undefined THEN updateData.title ELSE Absent,
   author |-> IF updateData.author # Undefined THEN updateData.author ELSE Absent,
   year |-> IF updateData.year = Undefined THEN Absent
            ELSE IF Trim(updateData.year[2]) = <<>> THEN Undefined
            ELSE Number(updateData.year[2]),
   coverImage |-> IF ClearRequested(updateData) THEN Null
                  ELSE IF ~Falsy(newCoverImagePath) THEN newCoverImagePath
                  ELSE Absent]

\* finalUpdatePayload; a key the payload does not have is Absent.
FinalUpdatePayload(updateData, newCoverImagePath) ==
  [title |-> IF updateData.title # Undefined THEN updateData.title ELSE Absent,
   author |-> IF updateData.author # Undefined THEN updateData.author ELSE Absent,
   year |-> IF updateData.year = Undefined THEN Absent
            ELSE IF Trim(updateData.year[2]) = <<>> THEN Undefined
            ELSE Number(updateData.year[2]),
   coverImage |-> IF ~Falsy(newCoverImagePath) THEN newCoverImagePath
                  ELSE IF ClearRequested(updateData) THEN Null
                  ELSE Absent]

\* Object.keys(finalUpdatePayload).length
PayloadKeys(payload) ==
  Cardinality({k \in {"title", "author", "year", "coverImage"} : payload[k] # Absent})

\* oldImagePathToDelete without the marking of the clear branch.
OldImagePathToDelete_ReplaceOnly(existingCover, updateData, newCoverImagePath) ==
  IF ~Falsy(newCoverImagePath)
    THEN IF ~Falsy(existingCover) THEN existingCover ELSE Null
  ELSE Null

\* oldImagePathToDelete, null when nothing is marked.
OldImagePathToDelete(existingCover, updateData, newCoverImagePath) ==
  IF ~Falsy(newCoverImagePath) \/ ClearRequested(updateData)
    THEN IF ~Falsy(existingCover) THEN existingCover ELSE Null
  ELSE Null

\* TRUE when updateBook rejects the request as carrying no update data.
NoUpdateData(updateData, newCoverImagePath) ==
  /\ PayloadKeys(FinalUpdatePayload(updateData, newCoverImagePath)) = 0
  /\ Falsy(newCoverImagePath)
  /\ updateData.coverImageAction = Undefined

\* The ownership check without the admin exemption.
MayUpdate_OwnerOnly(book, userId, userRole) == book.createdBy = userId

\* TRUE when updateBook lets this identity update the book.
MayUpdate(book, userId, userRole) ==
  ~(book.createdBy # userId /\ userRole # "admin")

\* runValidators: a required string path must not be set to "".
PayloadValid(payload) ==
  /\ payload.title # Str(<<>>)
  /\ payload.author # Str(<<>>)

\* The update applied as a replacement of the document's fields instead of
\* a $set: a field the payload does not have is lost.
ApplySet_Overwrite(book, payload) ==
  [title |-> IF payload.title \in {Absent, Undefined} THEN book.title ELSE payload.title,
   author |-> IF payload.author \in {Absent, Undefined} THEN book.author ELSE payload.author,
   year |-> IF payload.year \in {Absent, Undefined} THEN Undefined ELSE payload.year,
   coverImage |-> IF payload.coverImage \in {Absent, Undefined} THEN Undefined
                  ELSE payload.coverImage,
   createdBy |-> book.createdBy]

\* { $set: finalUpdatePayload } applied to a document: keys the payload does
\* not have, and keys set to undefined, leave the field as it is.
ApplySet_DropCreator(book, payload) ==
  [title |-> IF payload.title \in {Absent, Undefined} THEN book.title ELSE payload.title,
   author |-> IF payload.author \in {Absent, Undefined} THEN book.author ELSE payload.author,
   year |-> IF payload.year \in {Absent, Undefined} THEN book.year ELSE payload.year,
   coverImage |-> IF payload.coverImage \in {Absent, Undefined} THEN book.coverImage
                  ELSE payload.coverImage,
   createdBy |-> ""]

ApplySet(book, payload) ==
  [title |-> IF payload.title \in {Absent, Undefined} THEN book.title ELSE payload.title,
   author |-> IF payload.author \in {Absent, Undefined} THEN book.author ELSE payload.author,
   year |-> IF payload.year \in {Absent, Undefined} THEN book.year ELSE payload.year,
   coverImage |-> IF payload.coverImage \in {Absent, Undefined} THEN book.coverImage
                  ELSE payload.coverImage,
   createdBy |-> book.createdBy]

\* updateBook, had it been written to reject as "No update data provided"
\* also an update that would leave the book as it is.
UpdateBookReject_Unchanged(coll, bookId, updateData, userId, userRole, newCoverImagePath) ==
  IF ~IsValidObjectId(bookId)
    THEN ServiceError(400, "Invalid Book ID format")
  ELSE IF bookId \notin DOMAIN coll
    THEN ServiceError(404, "Book not found")
  ELSE IF ~MayUpdate(coll[bookId], userId, userRole)
    THEN ServiceError(403, "Access Denied: You do not own this book.")
  ELSE IF YearIsNaN(updateData)
    THEN ServiceError(400, "Year must be a number if provided")
  ELSE IF \/ NoUpdateData(updateData, newCoverImagePath)
          \/ /\ Falsy(newCoverImagePath)
             /\ ApplySet(coll[bookId], FinalUpdatePayload(updateData, newCoverImagePath))
                  = coll[bookId]
    THEN ServiceError(400, "No update data provided")
  ELSE NoError

\* The error updateBook throws before it calls findByIdAndUpdate, or NoError.
UpdateBookReject(coll, bookId, updateData, userId, userRole, newCoverImagePath) ==
  IF ~IsValidObjectId(bookId)
    THEN ServiceError(400, "Invalid Book ID format")
  ELSE IF bookId \notin DOMAIN coll
    THEN ServiceError(404, "Book not found")
  ELSE IF ~MayUpdate(coll[bookId], userId, userRole)
    THEN ServiceError(403, "Access Denied: You do not own this book.")
  ELSE IF YearIsNaN(updateData)
    THEN ServiceError(400, "Year must be a number if provided")
  ELSE IF NoUpdateData(updateData, newCoverImagePath)
    THEN ServiceError(400, "No update data provided")
  ELSE NoError

\* The error that leaves updateBook's try block for what happened inside it:
\* the catch block rethrows a ValidationError with status 400 and replaces
\* every other error, its own 404 included, by a status-500 error.
UpdateCatch(dbError) ==
  IF dbError.name = "ValidationError" THEN ValidationError
  ELSE ServiceError(500, "Database query failed while updating book.")

\* The status updateBookController answers for an error of updateBook.
UpdateHttpStatus(err) ==
  IF err.message = "Book not found" \/ err.status = 404 THEN 404
  ELSE IF err.message = "Access Denied" \/ err.status = 403 THEN 403
  ELSE IF err.message = "Year must be a number if provided"
          \/ err.name = "ValidationError" THEN 400
  ELSE 500

\* What the awaited findByIdAndUpdate(...).populate(...) and the check of its
\* result throw inside the try block, or NoError. dbOut is "ok", "error" (the
\* query is rejected, nothing is written) or "populateError" (the write is
\* applied, then populate is rejected); missing: no document has the id.
UpdateThrown(payload, dbOut, missing) ==
  IF ~PayloadValid(payload) THEN ValidationError
  ELSE IF dbOut # "ok" THEN ServiceError(0, "query failed")
  ELSE IF missing THEN ServiceError(404, "Book not found after update attempt")
  ELSE NoError

\* TRUE when findByIdAndUpdate has written the payload to the document.
UpdateWritten(payload, dbOut, missing) ==
  PayloadValid(payload) /\ dbOut # "error" /\ ~missing

\* The paths updateBook deletes as the old image once the update has
\* returned the updated book.
OldImageDeletion(thrown, oldImagePathToDelete, updatedCover) ==
  IF thrown = NoError /\ oldImagePathToDelete # Null
     /\ oldImagePathToDelete # updatedCover
    THEN DeleteUploadedFile({}, oldImagePathToDelete)
  ELSE {}

\* The paths deleted as the request's upload when updateBook throws: by the
\* service before it throws or in its catch block, and by the catch block of
\* updateBookController.
UploadCleanup(thrown, newCoverImagePath) ==
  IF thrown = NoError THEN {}
  ELSE DeleteUploadedFile(DeleteUploadedFile({}, newCoverImagePath), newCoverImagePath)

\* createBook without the deleteUploadedFile call of the year check.
CreateServiceCleanup_NotForYear(err, coverImage) ==
  IF err.message = "Year must be a number if provided" THEN {}
  ELSE DeleteUploadedFile({}, coverImage)

\* The paths createBook deletes as the request's upload when it throws.
CreateServiceCleanup(err, coverImage) == DeleteUploadedFile({}, coverImage)

(***************************************************************************)
(* deleteBookAsAdmin behind authorizeMiddleware(["admin"]).                *)
(***************************************************************************)
\* authorizeMiddleware(allowedRoles): TRUE when the request goes on.
Authorized(allowedRoles, userRole) == userRole \in allowedRoles

\* The DELETE route with the id check ahead of the role gate.
DeleteHttpStatus_IdFirst(coll, bookId, userRole, dbOk) ==
  IF ~IsValidObjectId(bookId) THEN 400
  ELSE IF ~Authorized({"admin"}, userRole) THEN 403
  ELSE IF ~dbOk THEN 500
  ELSE IF bookId \notin DOMAIN coll THEN 404
  ELSE 200

\* The status answered for DELETE /books/:id.
DeleteHttpStatus(coll, bookId, userRole, dbOk) ==
  IF ~Authorized({"admin"}, userRole) THEN 403
  ELSE IF ~IsValidObjectId(bookId) THEN 400
  ELSE IF ~dbOk THEN 500
  ELSE IF bookId \notin DOMAIN coll THEN 404
  ELSE 200

\* findByIdAndDelete that returns the book and leaves it in the collection.
RemoveById_Keep(coll, bookId) == coll

\* The collection without the document of this id.
RemoveById(coll, bookId) == [i \in DOMAIN coll \ {bookId} |-> coll[i]]

(***************************************************************************)
(* Requests.                                                               *)
(***************************************************************************)
Slots == 1..MaxInFlight

NoData ==
  [title |-> Undefined, author |-> Undefined, year |-> Undefined,
   coverImageAction |-> Undefined]

Body(title, author, year, coverImage) ==
  [title |-> title, author |-> author, year |-> year,
   coverImageAction |-> coverImage]

\* req.body of POST /books.
CreateInputs ==
  {Body(Str(<<"A">>), Str(<<"R">>), Undefined, Undefined),
   Body(Str(<<"A">>), Str(<<"R">>), Str(<<"7">>), Str(<<"k">>)),
   Body(Str(<<"A">>), Str(<<"R">>), Str(<<"x">>), Undefined),
   Body(Undefined, Str(<<"R">>), Undefined, Undefined),
   Body(Str(<<"A">>), Str(<<>>), Str(<<"7">>), Undefined)}

\* req.body of PUT /books/:id.
UpdateInputs ==
  {Body(Undefined, Undefined, Undefined, Undefined),
   Body(Str(<<"B">>), Undefined, Undefined, Undefined),
   Body(Str(<<>>), Undefined, Undefined, Undefined),
   Body(Undefined, Str(<<"R">>), Str(<<"7">>), Undefined),
   Body(Undefined, Undefined, Str(<<" ">>), Undefined),
   Body(Undefined, Undefined, Str(<<"x">>), Undefined),
   Body(Undefined, Undefined, Undefined, Str(<<>>)),
   Body(Str(<<"B">>), Undefined, Undefined, Null),
   Body(Undefined, Undefined, Undefined, Str(<<"k">>)),
   [title |-> Str(<<"C">>), author |-> Undefined, year |-> Undefined,
    coverImageAction |-> Undefined, id |-> 0, createdBy |-> "adm"]}

\* The identities that create books.
Creators == {"u1", "u2"}

\* No request: the value of cur while none is being received, and of a slot
\* of reqs that no update occupies. credential is what authMiddleware let
\* pass ("" before it has run, and where the router has no authMiddleware).
NoReq ==
  [kind |-> "none", user |-> "", bookId |-> 0, data |-> NoData,
   hasFile |-> FALSE, newPath |-> Undefined, existingCover |-> Undefined,
   repeat |-> FALSE, credential |-> ""]

Request(kind, user, bookId, data, hasFile) ==
  [kind |-> kind, user |-> user, bookId |-> bookId, data |-> data,
   hasFile |-> hasFile, newPath |-> Undefined, existingCover |-> Undefined,
   repeat |-> FALSE, credential |-> ""]

\* The requests a client can send: POST /books, GET /books, GET /books/:id,
\* PUT /books/:id and DELETE /books/:id, with or without a file where the
\* route takes one.
Requests ==
  {Request("create", u, 0, d, f) : u \in Creators, d \in CreateInputs, f \in BOOLEAN}
  \cup {Request("list", u, 0, NoData, FALSE) : u \in Users}
  \cup {Request("get", u, i, NoData, FALSE) : u \in Users, i \in IdIn}
  \cup {Request("update", u, i, d, f) :
          u \in Users, i \in IdIn, d \in UpdateInputs, f \in BOOLEAN}
  \cup {Request("delete", u, i, NoData, FALSE) : u \in Users, i \in IdIn}

\* The response of the step just taken: the kind of request it answers, the
\* status, the message of the error the service threw (error) and of the
\* error caught inside updateBook's try block (cause), the path of the
\* request's upload, the paths the step deleted as the request's upload
\* (cleaned) and as the book's old image (removed), whether the step wrote
\* to the collection, whether the request was a repeat, and, for an update
\* that succeeded, for a get and for a list, the request itself, and the ids
\* of the books a list returned.
NoResp ==
  [kind |-> "none", status |-> 0, error |-> "", cause |-> "",
   newPath |-> Undefined, cleaned |-> {}, removed |-> {}, written |-> FALSE, repeat |-> FALSE,
   req |-> NoReq, listed |-> {}]

Response(kind, status, error, newPath, cleaned, removed, written) ==
  [kind |-> kind, status |-> status, error |-> error, cause |-> "",
   newPath |-> newPath, cleaned |-> cleaned, removed |-> removed, written |-> written,
   repeat |-> FALSE, req |-> NoReq, listed |-> {}]

Init ==
  /\ books = [i \in {} |-> NoData]
  /\ files = {}
  /\ unlinks = {}
  /\ now = 1
  /\ nextId = 1
  /\ cur = NoReq
  /\ reqs = [s \in Slots |-> NoReq]
  /\ resp = NoResp
  /\ served = 0

\* Date.now() advances; the uploads stored between two ticks read the same
\* value.
Tick ==
  /\ cur = NoReq
  /\ now < MaxClock
  /\ now' = now + 1
  /\ resp' = NoResp
  /\ UNCHANGED <<books, files, unlinks, nextId, cur, reqs, served>>

\* The fs.unlink callback answering the client with its error.
FsUnlink_Surfaced(p, ok) ==
  /\ cur = NoReq
  /\ p \in unlinks
  /\ unlinks' = unlinks \ {p}
  /\ files' = IF ok THEN files \ {p} ELSE files
  /\ resp' = IF ok THEN NoResp
             ELSE Response("delete", 500, "Error deleting file", Undefined, {}, {}, FALSE)
  /\ UNCHANGED <<books, now, nextId, cur, reqs, served>>

\* An fs.unlink issued by deleteUploadedFile completes: the file is removed,
\* or the callback gets an error, which is logged.
FsUnlink(p, ok) ==
  /\ cur = NoReq
  /\ p \in unlinks
  /\ unlinks' = unlinks \ {p}
  /\ files' = IF ok THEN files \ {p} ELSE files
  /\ resp' = NoResp
  /\ UNCHANGED <<books, now, nextId, cur, reqs, served>>

\* A request reaches the server; its handler runs next. An update needs a
\* free slot.
Receive(r) ==
  /\ cur = NoReq
  /\ resp = NoResp
  /\ served < MaxRequests
  /\ r.kind = "update" => \E s \in Slots : reqs[s] = NoReq
  /\ cur' = r
  /\ served' = served + 1
  /\ UNCHANGED <<books, files, unlinks, now, nextId, reqs, resp>>

\* What the Authorization header of a request can be: absent, not of the
\* form "Bearer <token>", a token that has expired, a token that jwt.verify
\* rejects, a good token of a user that is no longer in the User collection,
\* a good token of a user that is.
Credentials == {"missing", "malformed", "expired", "invalid", "deleted", "valid"}

\* The requests sent with the credentials that authMiddleware refuses.
RefusedRequests ==
  {Request("create", "u1", 0, Body(Str(<<"A">>), Str(<<"R">>), Undefined, Undefined), TRUE),
   Request("get", "adm", 1, NoData, FALSE),
   Request("update", "u1", 1, Body(Str(<<"B">>), Undefined, Undefined, Undefined), TRUE),
   Request("delete", "adm", 1, NoData, FALSE)}

\* authMiddleware that does not look the user up.
AuthMiddleware_NoLookup(credential, dbOk) ==
  IF credential \in {"missing", "malformed"} THEN "Unauthorized: No token provided"
  ELSE IF credential = "expired" THEN "Unauthorized: Token expired"
  ELSE IF credential = "invalid" THEN "Unauthorized: Invalid token"
  ELSE ""

\* authMiddleware: the error it answers with status 401, or "" when it calls
\* next(); dbOk tells whether User.findById succeeds.
AuthMiddleware(credential, dbOk) ==
  IF credential \in {"missing", "malformed"} THEN "Unauthorized: No token provided"
  ELSE IF credential = "expired" THEN "Unauthorized: Token expired"
  ELSE IF credential = "invalid" THEN "Unauthorized: Invalid token"
  ELSE IF ~dbOk THEN "Unauthorized: Token verification failed"
  ELSE IF credential = "deleted" THEN "Unauthorized: User not found"
  ELSE ""

\* A request reaches the router: authMiddleware answers 401, or sets
\* req.user and lets the request go on to its route (Receive).
Authenticate(r, credential, dbOk) ==
  LET error == AuthMiddleware(credential, dbOk)
  IN
  /\ cur = NoReq
  /\ resp = NoResp
  /\ served < MaxRequests
  /\ IF error = ""
       THEN Receive([r EXCEPT !.credential = credential])
     ELSE /\ served' = served + 1
          /\ resp' = Response("auth", 401, error, Undefined, {}, {}, FALSE)
          /\ UNCHANGED <<books, files, unlinks, now, nextId, cur, reqs>>

\* The client that has just been answered success for an update without
\* upload sends the identical request again.
Repeat ==
  /\ cur = NoReq
  /\ resp.kind = "update"
  /\ resp.req # NoReq
  /\ resp.req.newPath = Undefined
  /\ served < MaxRequests
  /\ \E s \in Slots : reqs[s] = NoReq
  /\ cur' = [resp.req EXCEPT !.repeat = TRUE]
  /\ served' = served + 1
  /\ resp' = NoResp
  /\ UNCHANGED <<books, files, unlinks, now, nextId, reqs>>

\* The response has been sent to the client.
Deliver ==
  /\ cur = NoReq
  /\ resp # NoResp
  /\ resp' = NoResp
  /\ UNCHANGED <<books, files, unlinks, now, nextId, cur, reqs, served>>

\* POST /books: multer stores the upload, createBookController calls
\* createBook, which saves the book unless it rejects the request; saveOk
\* tells whether newBook.save() succeeds.
CreateBook(saveOk) ==
  LET path == UploadPath(cur.hasFile, now)
      rej == CreateBookReject(cur.data)
      err == IF rej # NoError THEN rej
             ELSE ServiceError(0, "Failed to save book to database.")
      failed == rej # NoError \/ ~saveOk
      cleaned == CreateControllerCleanup(CreateServiceCleanup(err, path), err, path)
  IN
  /\ cur.kind = "create"
  /\ failed \/ nextId <= MaxBooks
  /\ files' = StoreFile(files, path)
  /\ IF failed
       THEN /\ unlinks' = unlinks \cup cleaned
            /\ UNCHANGED <<books, nextId>>
            /\ resp' = Response("create", CreateHttpStatus(err), err.message, path,
                                cleaned, {}, FALSE)
       ELSE /\ books' = (nextId :> NewBook(cur.data, path, cur.user)) @@ books
            /\ nextId' = nextId + 1
            /\ UNCHANGED unlinks
            /\ resp' = Response("create", 201, "", path, {}, {}, TRUE)
  /\ cur' = NoReq
  /\ UNCHANGED <<now, reqs, served>>

\* GET /books: getAllBooksController; dbOk tells whether Book.find succeeds.
ListBooks(dbOk) ==
  /\ cur.kind = "list"
  /\ resp' = [Response("list", IF dbOk THEN 200 ELSE 500,
                       IF dbOk THEN "" ELSE "Failed to fetch books",
                       Undefined, {}, {}, FALSE)
                EXCEPT !.req = cur,
                       !.listed = IF dbOk THEN GetBooks(books, cur.user, Role(cur.user))
                                  ELSE {}]
  /\ cur' = NoReq
  /\ UNCHANGED <<books, files, unlinks, now, nextId, reqs, served>>

\* GET /books/:id; dbOk tells whether findById succeeds.
GetBook(dbOk) ==
  LET status == GetHttpStatus(books, cur.bookId, cur.user, Role(cur.user), dbOk)
  IN
  /\ cur.kind = "get"
  /\ resp' = [Response("get", status,
                       IF status = 500 THEN "Failed to fetch book" ELSE "",
                       Undefined, {}, {}, FALSE)
                EXCEPT !.req = cur]
  /\ cur' = NoReq
  /\ UNCHANGED <<books, files, unlinks, now, nextId, reqs, served>>

\* PUT /books/:id up to the call of findByIdAndUpdate: multer stores the
\* upload, updateBookController checks the id, updateBook reads the book with
\* findById (dbOk tells whether it succeeds) and checks the request.
UpdateFind(dbOk) ==
  LET path == UploadPath(cur.hasFile, now)
      byController == ~IsValidObjectId(cur.bookId)
      err == IF byController THEN ServiceError(400, "Invalid Book ID format")
             ELSE IF ~dbOk THEN ServiceError(0, "findById failed")
             ELSE UpdateBookReject(books, cur.bookId, cur.data, cur.user,
                                   Role(cur.user), path)
      status == IF byController THEN 400 ELSE UpdateHttpStatus(err)
      cleaned == UploadCleanup(err, path)
      s == CHOOSE t \in Slots : reqs[t] = NoReq
  IN
  /\ cur.kind = "update"
  /\ files' = StoreFile(files, path)
  /\ IF err # NoError
       THEN /\ unlinks' = unlinks \cup cleaned
            /\ resp' = [Response("update", status, err.message, path, cleaned, {}, FALSE)
                          EXCEPT !.repeat = cur.repeat]
            /\ UNCHANGED reqs
       ELSE /\ reqs' = [reqs EXCEPT ![s] =
                          [cur EXCEPT !.hasFile = FALSE, !.newPath = path,
                                      !.existingCover = books[cur.bookId].coverImage]]
            /\ resp' = NoResp
            /\ UNCHANGED unlinks
  /\ cur' = NoReq
  /\ UNCHANGED <<books, now, nextId, served>>

\* PUT /books/:id from findByIdAndUpdate on: the write, the deletion of the
\* old image or the cleanup of the catch blocks, and the response.
UpdateCommit(s, dbOut) ==
  LET r == reqs[s]
      payload == FinalUpdatePayload(r.data, r.newPath)
      old == OldImagePathToDelete(r.existingCover, r.data, r.newPath)
      missing == r.bookId \notin DOMAIN books
      written == UpdateWritten(payload, dbOut, missing)
      updated == ApplySet(books[r.bookId], payload)
      thrown == UpdateThrown(payload, dbOut, missing)
      err == IF thrown = NoError THEN NoError ELSE UpdateCatch(thrown)
      removed == OldImageDeletion(thrown, old, IF missing THEN Undefined
                                               ELSE updated.coverImage)
      cleaned == UploadCleanup(thrown, r.newPath)
      status == IF err = NoError THEN 200 ELSE UpdateHttpStatus(err)
  IN
  /\ cur = NoReq
  /\ r.kind = "update"
  /\ books' = IF written THEN [books EXCEPT ![r.bookId] = updated] ELSE books
  /\ unlinks' = unlinks \cup removed \cup cleaned
  /\ reqs' = [reqs EXCEPT ![s] = NoReq]
  /\ resp' = [Response("update", status, err.message, r.newPath, cleaned, removed,
                       written)
                EXCEPT !.repeat = r.repeat,
                       !.cause = thrown.message,
                       !.req = IF status = 200
                                 THEN [r EXCEPT !.existingCover = Undefined,
                                                !.repeat = FALSE]
                               ELSE NoReq]
  /\ UNCHANGED <<files, now, nextId, cur, served>>

\* DELETE /books/:id: authorizeMiddleware, deleteBookController,
\* deleteBookAsAdmin; dbOk tells whether findByIdAndDelete succeeds.
DeleteBook(dbOk) ==
  LET status == DeleteHttpStatus(books, cur.bookId, Role(cur.user), dbOk)
      removed == IF status = 200
                   THEN DeleteUploadedFile({}, books[cur.bookId].coverImage) ELSE {}
  IN
  /\ cur.kind = "delete"
  /\ books' = IF status = 200 THEN RemoveById(books, cur.bookId) ELSE books
  /\ unlinks' = unlinks \cup removed
  /\ resp' = Response("delete", status, "", Undefined, {}, removed, status = 200)
  /\ cur' = NoReq
  /\ UNCHANGED <<files, now, nextId, reqs, served>>

\* No update is between its findById and its findByIdAndUpdate.
NoUpdateInFlight == \A s \in Slots : reqs[s] = NoReq

\* A request of any kind can arrive while an update is in flight, except
\* another update: two updates in flight together are explored, without
\* failures, by SpecNoFailure.
Next ==
  \/ Tick
  \/ \E p \in unlinks, ok \in BOOLEAN : FsUnlink(p, ok)
  \/ \E r \in Requests :
       /\ r.kind = "update" => NoUpdateInFlight
       /\ Authenticate(r, "valid", TRUE)
  \/ \E r \in RefusedRequests, c \in Credentials, ok \in BOOLEAN : Authenticate(r, c, ok)
  \/ NoUpdateInFlight /\ Repeat
  \/ Deliver
  \/ \E ok \in BOOLEAN : CreateBook(ok)
  \/ \E ok \in BOOLEAN : ListBooks(ok)
  \/ \E ok \in BOOLEAN : GetBook(ok)
  \/ \E ok \in BOOLEAN : UpdateFind(ok)
  \/ \E s \in Slots, o \in {"ok", "error", "populateError"} : UpdateCommit(s, o)
  \/ \E ok \in BOOLEAN : DeleteBook(ok)

Spec == Init /\ [][Next]_vars

\* The behaviours in which no database call and no fs.unlink fails: creates,
\* updates and deletes with good credentials, in any interleaving.
NextNoFailure ==
  \/ Tick
  \/ \E p \in unlinks : FsUnlink(p, TRUE)
  \/ \E r \in {q \in Requests : q.kind \in {"create", "update", "delete"}} :
       Authenticate(r, "valid", TRUE)
  \/ Deliver
  \/ CreateBook(TRUE)
  \/ UpdateFind(TRUE)
  \/ \E s \in Slots : UpdateCommit(s, "ok")
  \/ DeleteBook(TRUE)

SpecNoFailure == Init /\ [][NextNoFailure]_vars

(***************************************************************************)
(* The S3 server: updateBook and deleteBook of controllers/book.js over    *)
(* the bucket helpers (isS3Key, uploadFileToS3, deleteFileFromS3). Under   *)
(* SpecS3 files is the set of keys of the bucket, the upload is held in    *)
(* memory until updateBook puts it, and the deletions are awaited, so      *)
(* unlinks stays empty. The records are created by createBook of           *)
(* controllers/book.js, which stores the coverImage of the body.           *)
(***************************************************************************)
S3_KEY_PREFIX == "book-covers/"

\* isS3Key(key): a non-empty string that starts with the prefix.
IsS3Key(key) ==
  /\ Len(key) = 2
  /\ key[1] = "str"
  /\ key[2] # <<>>
  /\ key[2][1] = S3_KEY_PREFIX

\* The key uploadFileToS3 puts the file under:
\* `${S3_KEY_PREFIX}coverImage-${Date.now()}${ext}`.
S3Key(t) == Str(<<S3_KEY_PREFIX, "coverImage-", t>>)

\* uploadFileToS3: PutObject, which replaces an object of the same key.
UploadFileToS3(bucket, t) == bucket \cup {S3Key(t)}

\* deleteFileFromS3(s3Key): returns at once for a value that is not a key of
\* the prefix, else DeleteObject; ok tells whether the call succeeds (the
\* callers catch and log its failure).
DeleteFileFromS3(bucket, s3Key, ok) ==
  IF ~IsS3Key(s3Key) THEN bucket
  ELSE IF ok THEN bucket \ {s3Key}
  ELSE bucket

\* A cover image value that is not a key of the bucket: the path of a file
\* stored by an earlier local-disk deployment.
LegacyPath == Str(<<"uploads/", "coverImage-", 0>>)

\* createBook of controllers/book.js: the status it answers; saveOk tells
\* whether newBook.save() succeeds. (The bodies sent carry no year.)
PlainCreateStatus(body, saveOk) ==
  IF Falsy(body.title) \/ Falsy(body.author) THEN 400
  ELSE IF ~saveOk THEN 500
  ELSE 201

\* new Book({title, author, year, coverImage}) of controllers/book.js.
PlainNewBook(body) ==
  [title |-> body.title, author |-> body.author, year |-> body.year,
   coverImage |-> body.coverImageAction, createdBy |-> ""]

\* finalUpdateData of the S3 updateBook, once the year has been accepted.
S3FinalUpdateData(body, newS3Key) ==
  [title |-> IF body.title # Undefined THEN body.title ELSE Absent,
   author |-> IF body.author # Undefined THEN body.author ELSE Absent,
   year |-> IF body.year = Undefined THEN Absent
            ELSE IF Trim(body.year[2]) = <<>> THEN Undefined
            ELSE Number(body.year[2]),
   coverImage |-> IF newS3Key # Undefined THEN newS3Key
                  ELSE IF body.coverImageAction \in {Str(<<>>), Null} THEN Undefined
                  ELSE Absent]

\* s3KeyToDelete of the S3 updateBook: the existing key when a file replaces
\* it or the body asks to clear it, else null.
S3KeyToDelete(existingCover, body, newS3Key) ==
  IF newS3Key # Undefined
    THEN IF IsS3Key(existingCover) /\ existingCover # newS3Key
           THEN existingCover ELSE Null
  ELSE IF body.coverImageAction \in {Str(<<>>), Null}
    THEN IF IsS3Key(existingCover) THEN existingCover ELSE Null
  ELSE Null

\* The S3 updateBook up to the call of findByIdAndUpdate: the status and
\* the message it answers at once, or status 0 when it goes on. dbOk tells
\* whether findById succeeds, upOk whether uploadFileToS3 does.
S3UpdateReject(coll, bookId, body, hasFile, dbOk, upOk) ==
  IF ~IsValidObjectId(bookId) THEN ServiceError(400, "Invalid Book ID format")
  ELSE IF ~dbOk THEN ServiceError(500, "findById failed")
  ELSE IF bookId \notin DOMAIN coll THEN ServiceError(404, "Book not found")
  ELSE IF body.year # Undefined /\ Trim(body.year[2]) # <<>>
          /\ Number(body.year[2]) = NaN
    THEN ServiceError(400, "Year must be a number")
  ELSE IF hasFile /\ ~upOk THEN ServiceError(500, "upload failed")
  ELSE IF /\ PayloadKeys(S3FinalUpdateData(body, Undefined)) = 0
          /\ ~hasFile
          /\ body.coverImageAction = Undefined
    THEN ServiceError(400, "No update data provided")
  ELSE NoError

\* The status the S3 updateBook answers from findByIdAndUpdate on.
S3CommitStatus(payload, dbOk, missing) ==
  IF ~PayloadValid(payload) THEN 400
  ELSE IF ~dbOk THEN 500
  ELSE IF missing THEN 404
  ELSE 200

\* The status the S3 deleteBook answers.
S3DeleteStatus(coll, bookId, dbOk) ==
  IF ~IsValidObjectId(bookId) THEN 400
  ELSE IF ~dbOk THEN 500
  ELSE IF bookId \in DOMAIN coll THEN 200
  ELSE 404

\* req.body of POST /books of controllers/book.js.
PlainCreateInputs ==
  {Body(Str(<<"A">>), Str(<<"R">>), Undefined, Undefined),
   Body(Str(<<"A">>), Str(<<"R">>), Undefined, LegacyPath),
   Body(Undefined, Str(<<"R">>), Undefined, Undefined)}

\* req.body of PUT /books/:id of the S3 server.
S3UpdateInputs ==
  {Body(Undefined, Undefined, Undefined, Undefined),
   Body(Str(<<"B">>), Undefined, Undefined, Undefined),
   Body(Str(<<>>), Undefined, Undefined, Undefined),
   Body(Undefined, Undefined, Str(<<"x">>), Undefined),
   Body(Undefined, Undefined, Undefined, Str(<<>>)),
   Body(Str(<<>>), Undefined, Undefined, Null)}

\* The requests a client can send to the S3 server; they carry no identity.
S3Requests ==
  {Request("create", "", 0, d, FALSE) : d \in PlainCreateInputs}
  \cup {Request("update", "", i, d, f) :
          i \in IdIn, d \in S3UpdateInputs, f \in BOOLEAN}
  \cup {Request("delete", "", i, NoData, FALSE) : i \in IdIn}

\* POST /books of controllers/book.js.
PlainCreateBook(saveOk) ==
  LET status == PlainCreateStatus(cur.data, saveOk)
  IN
  /\ cur.kind = "create"
  /\ status # 201 \/ nextId <= MaxBooks
  /\ IF status = 201
       THEN /\ books' = (nextId :> PlainNewBook(cur.data)) @@ books
            /\ nextId' = nextId + 1
       ELSE UNCHANGED <<books, nextId>>
  /\ resp' = Response("create", status, "", Undefined, {}, {}, status = 201)
  /\ cur' = NoReq
  /\ UNCHANGED <<files, unlinks, now, reqs, served>>

\* PUT /books/:id of the S3 server up to the call of findByIdAndUpdate:
\* findById, the checks, the upload, and the deletion of the old key; delOk
\* tells whether deleteFileFromS3 succeeds.
S3UpdateStage(dbOk, upOk, delOk) ==
  LET err == S3UpdateReject(books, cur.bookId, cur.data, cur.hasFile, dbOk, upOk)
      uploaded == cur.hasFile /\ err = NoError
      newS3Key == IF uploaded THEN S3Key(now) ELSE Undefined
      existing == IF err = NoError THEN books[cur.bookId].coverImage ELSE Undefined
      old == IF err = NoError THEN S3KeyToDelete(existing, cur.data, newS3Key) ELSE Null
      put == IF uploaded THEN UploadFileToS3(files, now) ELSE files
      s == CHOOSE t \in Slots : reqs[t] = NoReq
  IN
  /\ cur.kind = "update"
  /\ files' = IF old = Null THEN put ELSE DeleteFileFromS3(put, old, delOk)
  /\ IF err # NoError
       THEN /\ resp' = Response("update", err.status, err.message, newS3Key, {}, {}, FALSE)
            /\ UNCHANGED reqs
       ELSE /\ reqs' = [reqs EXCEPT ![s] =
                          [cur EXCEPT !.hasFile = FALSE, !.newPath = newS3Key,
                                      !.existingCover = existing]]
            /\ resp' = NoResp
  /\ cur' = NoReq
  /\ UNCHANGED <<books, unlinks, now, nextId, served>>

\* PUT /books/:id of the S3 server from findByIdAndUpdate on: the write and
\* the response, which reports the old key as removed by the request.
S3UpdateCommit(s, dbOk) ==
  LET r == reqs[s]
      payload == S3FinalUpdateData(r.data, r.newPath)
      old == S3KeyToDelete(r.existingCover, r.data, r.newPath)
      missing == r.bookId \notin DOMAIN books
      status == S3CommitStatus(payload, dbOk, missing)
  IN
  /\ cur = NoReq
  /\ r.kind = "update"
  /\ books' = IF status = 200
                THEN [books EXCEPT ![r.bookId] = ApplySet(books[r.bookId], payload)]
              ELSE books
  /\ reqs' = [reqs EXCEPT ![s] = NoReq]
  /\ resp' = [Response("update", status,
                       IF status = 404 THEN "Book not found after update attempt"
                       ELSE "",
                       r.newPath, {}, IF old = Null THEN {} ELSE {old}, status = 200)
                EXCEPT !.req = IF status = 200
                                 THEN [r EXCEPT !.existingCover = Undefined]
                               ELSE NoReq]
  /\ UNCHANGED <<files, unlinks, now, nextId, cur, served>>

\* DELETE /books/:id of the S3 server: findByIdAndDelete, then the deletion
\* of the book's key.
S3DeleteBook(dbOk, delOk) ==
  LET status == S3DeleteStatus(books, cur.bookId, dbOk)
      key == IF status = 200 THEN books[cur.bookId].coverImage ELSE Undefined
  IN
  /\ cur.kind = "delete"
  /\ books' = IF status = 200 THEN RemoveById(books, cur.bookId) ELSE books
  /\ files' = IF status = 200 /\ IsS3Key(key)
                THEN DeleteFileFromS3(files, key, delOk)
              ELSE files
  /\ resp' = Response("delete", status, "", Undefined, {},
                      IF IsS3Key(key) THEN {key} ELSE {}, status = 200)
  /\ cur' = NoReq
  /\ UNCHANGED <<unlinks, now, nextId, reqs, served>>

\* generatePresignedPutUrl gives the client the key
\* `${S3_KEY_PREFIX}coverImage-${Date.now()}${ext}` and a URL; the client puts
\* its file under that key itself.
GeneratePresignedPutUrl ==
  /\ cur = NoReq
  /\ resp = NoResp
  /\ S3Key(now) \notin files
  /\ files' = files \cup {S3Key(now)}
  /\ UNCHANGED <<books, unlinks, now, nextId, cur, reqs, resp, served>>

\* finalUpdateData of updateBookWithS3Key, once the year has been accepted;
\* body.coverImageAction holds the coverImage of the body (newS3KeyOrAction).
S3ClientFinalUpdateData(body) ==
  [title |-> IF body.title # Undefined THEN body.title ELSE Absent,
   author |-> IF body.author # Undefined THEN body.author ELSE Absent,
   year |-> IF body.year = Undefined THEN Absent
            ELSE IF Trim(body.year[2]) = <<>> THEN Undefined
            ELSE Number(body.year[2]),
   coverImage |-> IF body.coverImageAction = Undefined THEN Absent
                  ELSE IF body.coverImageAction \in {Str(<<>>), Null} THEN Undefined
                  ELSE IF IsS3Key(body.coverImageAction) THEN body.coverImageAction
                  ELSE Absent]

S3ClientKeyToDelete_AnyValue(existingCover, body) ==
  IF body.coverImageAction = Undefined THEN Null
  ELSE IF body.coverImageAction \in {Str(<<>>), Null}
    THEN IF ~Falsy(existingCover) THEN existingCover ELSE Null
  ELSE IF IsS3Key(body.coverImageAction)
    THEN IF ~Falsy(existingCover) /\ existingCover # body.coverImageAction
           THEN existingCover ELSE Null
  ELSE Null

\* s3KeyToDelete of updateBookWithS3Key.
S3ClientKeyToDelete(existingCover, body) ==
  IF body.coverImageAction = Undefined THEN Null
  ELSE IF body.coverImageAction \in {Str(<<>>), Null}
    THEN IF IsS3Key(existingCover) THEN existingCover ELSE Null
  ELSE IF IsS3Key(body.coverImageAction)
    THEN IF IsS3Key(existingCover) /\ existingCover # body.coverImageAction
           THEN existingCover ELSE Null
  ELSE Null

\* updateBookWithS3Key up to the call of findByIdAndUpdate: the status and
\* the message it answers at once, or NoError when it goes on.
S3ClientUpdateReject(coll, bookId, body, dbOk) ==
  IF ~IsValidObjectId(bookId) THEN ServiceError(400, "Invalid Book ID format")
  ELSE IF ~dbOk THEN ServiceError(500, "findById failed")
  ELSE IF bookId \notin DOMAIN coll THEN ServiceError(404, "Book not found")
  ELSE IF body.year # Undefined /\ Trim(body.year[2]) # <<>>
          /\ Number(body.year[2]) = NaN
    THEN ServiceError(400, "Year must be a number")
  ELSE IF /\ PayloadKeys(S3ClientFinalUpdateData(body)) = 0
          /\ body.coverImageAction = Undefined
    THEN ServiceError(400, "No update data provided")
  ELSE NoError

\* req.body of PUT /books/:id handled by updateBookWithS3Key: its coverImage
\* is a key the client was given, "", a string that is no key, or absent.
S3ClientUpdateInputs ==
  {Body(Undefined, Undefined, Undefined, Undefined),
   Body(Str(<<"B">>), Undefined, Undefined, Undefined),
   Body(Undefined, Undefined, Undefined, Str(<<>>)),
   Body(Undefined, Undefined, Undefined, LegacyPath),
   Body(Str(<<>>), Undefined, Undefined, Str(<<>>))}
  \cup {Body(Undefined, Undefined, Undefined, S3Key(t)) : t \in 1..MaxClock}

\* The requests a client sends to updateBookWithS3Key.
S3ClientRequests ==
  {Request("updateKey", "", i, d, FALSE) : i \in IdIn, d \in S3ClientUpdateInputs}

\* PUT /books/:id of updateBookWithS3Key up to the call of
\* findByIdAndUpdate: findById, the checks and the deletion of the old key.
S3ClientUpdateStage(dbOk, delOk) ==
  LET err == S3ClientUpdateReject(books, cur.bookId, cur.data, dbOk)
      existing == IF err = NoError THEN books[cur.bookId].coverImage ELSE Undefined
      old == IF err = NoError THEN S3ClientKeyToDelete(existing, cur.data) ELSE Null
      s == CHOOSE t \in Slots : reqs[t] = NoReq
  IN
  /\ cur.kind = "updateKey"
  /\ files' = IF old = Null THEN files ELSE DeleteFileFromS3(files, old, delOk)
  /\ IF err # NoError
       THEN /\ resp' = Response("updateKey", err.status, err.message, Undefined, {}, {}, FALSE)
            /\ UNCHANGED reqs
       ELSE /\ reqs' = [reqs EXCEPT ![s] = [cur EXCEPT !.existingCover = existing]]
            /\ resp' = NoResp
  /\ cur' = NoReq
  /\ UNCHANGED <<books, unlinks, now, nextId, served>>

\* PUT /books/:id of updateBookWithS3Key from findByIdAndUpdate on: the
\* write and the response, which reports the old key as removed.
S3ClientUpdateCommit(s, dbOk) ==
  LET r == reqs[s]
      payload == S3ClientFinalUpdateData(r.data)
      old == S3ClientKeyToDelete(r.existingCover, r.data)
      missing == r.bookId \notin DOMAIN books
      status == S3CommitStatus(payload, dbOk, missing)
  IN
  /\ cur = NoReq
  /\ r.kind = "updateKey"
  /\ books' = IF status = 200
                THEN [books EXCEPT ![r.bookId] = ApplySet(books[r.bookId], payload)]
              ELSE books
  /\ reqs' = [reqs EXCEPT ![s] = NoReq]
  /\ resp' = [Response("updateKey", status,
                       IF status = 404 THEN "Book not found after update attempt"
                       ELSE "",
                       Undefined, {}, IF old = Null THEN {} ELSE {old}, status = 200)
                EXCEPT !.req = IF status = 200
                                 THEN [r EXCEPT !.existingCover = Undefined]
                               ELSE NoReq]
  /\ UNCHANGED <<files, unlinks, now, nextId, cur, served>>

NextS3 ==
  \/ Tick
  \/ \E r \in S3Requests \cup S3ClientRequests : Receive(r)
  \/ Deliver
  \/ \E ok \in BOOLEAN : PlainCreateBook(ok)
  \/ \E dbOk \in BOOLEAN, upOk \in BOOLEAN, delOk \in BOOLEAN :
       S3UpdateStage(dbOk, upOk, delOk)
  \/ \E s \in Slots, ok \in BOOLEAN : S3UpdateCommit(s, ok)
  \/ GeneratePresignedPutUrl
  \/ \E dbOk \in BOOLEAN, delOk \in BOOLEAN : S3ClientUpdateStage(dbOk, delOk)
  \/ \E s \in Slots, ok \in BOOLEAN : S3ClientUpdateCommit(s, ok)
  \/ \E dbOk \in BOOLEAN, delOk \in BOOLEAN : S3DeleteBook(dbOk, delOk)

\* The bucket holds an object that the application did not put there.
InitS3 ==
  /\ books = [i \in {} |-> NoData]
  /\ files = {LegacyPath}
  /\ unlinks = {}
  /\ now = 1
  /\ nextId = 1
  /\ cur = NoReq
  /\ reqs = [s \in Slots |-> NoReq]
  /\ resp = NoResp
  /\ served = 0

SpecS3 == InitS3 /\ [][NextS3]_vars

(***************************************************************************)
(* The year on the validated routes: validateBookCreation and              *)
(* validateBookUpdate run before the controllers, and                      *)
(* handleValidationErrors answers 400 when they have found an error.       *)
(* SpecYear serves one create or update whose body carries any string of   *)
(* YearChars as its year.                                                  *)
(***************************************************************************)
\* Length of the year strings a body carries.
MaxYearLen == 5

\* The characters of the year strings.
YearChars == {"-", "+", "0", "1", "2", "3", "4", ".", " "}

\* The year strings of n characters.
YearStrings(n) == [1..n -> YearChars]

\* min of isInt.
MinYear == -4000

\* new Date().getFullYear() when the rules are loaded.
CurrentYear == 2026

\* max of isInt.
MaxYear == CurrentYear + 5

\* validator's isInt without options: an optional sign, then 0 or digits
\* that do not start with 0.
IsIntString(s) ==
  LET u == IF s # <<>> /\ s[1] \in {"-", "+"} THEN Tail(s) ELSE s
  IN /\ u # <<>>
     /\ AllDigits(u)
     /\ (u[1] = "0" => Len(u) = 1)

\* The value of a string that IsIntString accepts.
IntValue(s) ==
  IF s[1] = "-" THEN 0 - DecimalValue(Tail(s))
  ELSE IF s[1] = "+" THEN DecimalValue(Tail(s))
  ELSE DecimalValue(s)

\* The year rule without its min and max.
YearRuleFails_NoRange(year) ==
  /\ year \notin {Undefined, Null, Str(<<>>)}
  /\ ~IsIntString(year[2])

\* body("year").optional({checkFalsy: true}).if(notEmpty()).isInt({min, max}):
\* TRUE when the rule records an error.
YearRuleFails(year) ==
  /\ year \notin {Undefined, Null, Str(<<>>)}
  /\ ~(/\ IsIntString(year[2])
       /\ IntValue(year[2]) >= MinYear
       /\ IntValue(year[2]) <= MaxYear)

\* The requests SpecYear serves: a create, and an update of book 1 by its
\* owner, with any year string.
YearRequests(y) ==
  {[Request("create", "u1", 0, Body(Str(<<"A">>), Str(<<"R">>), Str(y), Undefined), FALSE)
      EXCEPT !.credential = "valid"],
   [Request("update", "u1", 1, Body(Undefined, Undefined, Str(y), Undefined), FALSE)
      EXCEPT !.credential = "valid"]}

\* One book, created without a year.
InitYear ==
  /\ books = (1 :> NewBook(Body(Str(<<"A">>), Str(<<"R">>), Undefined, Undefined),
                           Undefined, "u1"))
  /\ files = {}
  /\ unlinks = {}
  /\ now = 1
  /\ nextId = 2
  /\ cur = NoReq
  /\ reqs = [s \in Slots |-> NoReq]
  /\ resp = NoResp
  /\ served = 0

\* The one request reaches the router and passes authMiddleware.
YearReceive ==
  /\ served = 0
  /\ \E n \in 0..MaxYearLen : \E y \in YearStrings(n) : \E r \in YearRequests(y) :
       Receive(r)

\* handleValidationErrors when the rules have recorded an error: it answers
\* 400 and the request goes no further.
HandleValidationErrors ==
  /\ cur.kind \in {"create", "update"}
  /\ YearRuleFails(cur.data.year)
  /\ resp' = Response(cur.kind, 400, "Year must be a valid integer.", Undefined,
                      {}, {}, FALSE)
  /\ cur' = NoReq
  /\ UNCHANGED <<books, files, unlinks, now, nextId, reqs, served>>

\* handleValidationErrors with no error recorded: next(), to the controller.
ValidatedCreateBook(saveOk) ==
  /\ cur.kind = "create"
  /\ ~YearRuleFails(cur.data.year)
  /\ CreateBook(saveOk)

ValidatedUpdateFind(dbOk) ==
  /\ cur.kind = "update"
  /\ ~YearRuleFails(cur.data.year)
  /\ UpdateFind(dbOk)

NextYear ==
  \/ YearReceive
  \/ HandleValidationErrors
  \/ \E ok \in BOOLEAN : ValidatedCreateBook(ok)
  \/ \E ok \in BOOLEAN : ValidatedUpdateFind(ok)
  \/ \E s \in Slots, o \in {"ok", "error", "populateError"} : UpdateCommit(s, o)
  \/ Deliver

SpecYear == InitYear /\ [][NextYear]_vars

(***************************************************************************)
(* Deletes in flight together: DELETE /books/:id of an admin, split at the *)
(* await of findByIdAndDelete.                                             *)
(***************************************************************************)
\* The collection holds one book, with or without a cover image.
InitDeleteRace ==
  /\ \E c \in {Filename(1), Undefined, Null} :
       /\ books = (1 :> NewBook(Body(Str(<<"A">>), Str(<<"R">>), Undefined, Undefined),
                                c, "u1"))
       /\ files = StoreFile({}, IF c = Null THEN Undefined ELSE c)
  /\ unlinks = {}
  /\ now = 1
  /\ nextId = 2
  /\ cur = NoReq
  /\ reqs = [s \in Slots |-> NoReq]
  /\ resp = NoResp
  /\ served = 0

\* A DELETE of an admin arrives, past authMiddleware, authorize("admin") and
\* the id check of the controller; each slot holds one request for good.
DeleteArrive(s, id) ==
  /\ reqs[s] = NoReq
  /\ reqs' = [reqs EXCEPT ![s] = Request("delete", "adm", id, NoData, FALSE)]
  /\ served' = served + 1
  /\ resp' = NoResp
  /\ UNCHANGED <<books, files, unlinks, now, nextId, cur>>

\* What findByIdAndDelete tells its caller.
DeleteOutcome(coll, bookId, dbOk) ==
  IF ~dbOk THEN "deleteError"
  ELSE IF bookId \in DOMAIN coll THEN "deleteFound"
  ELSE "deleteMissing"

\* await Book.findByIdAndDelete(bookId) of the request of slot s: one
\* operation of the database, which removes the book and returns it.
FindByIdAndDelete(s, dbOk) ==
  LET r == reqs[s]
      outcome == DeleteOutcome(books, r.bookId, dbOk)
  IN
  /\ r.kind = "delete"
  /\ books' = IF outcome = "deleteFound" THEN RemoveById(books, r.bookId) ELSE books
  /\ reqs' = [reqs EXCEPT ![s] =
                [r EXCEPT !.kind = outcome,
                          !.existingCover = IF outcome = "deleteFound"
                                              THEN books[r.bookId].coverImage
                                            ELSE Undefined]]
  /\ resp' = NoResp
  /\ UNCHANGED <<files, unlinks, now, nextId, cur, served>>

\* The rest of deleteBookAsAdmin and of deleteBookController for slot s:
\* deleteUploadedFile for the cover of the deleted book, and the response.
DeleteRespond(s) ==
  LET r == reqs[s]
      status == IF r.kind = "deleteFound" THEN 200
                ELSE IF r.kind = "deleteMissing" THEN 404
                ELSE 500
      removed == IF r.kind = "deleteFound"
                   THEN DeleteUploadedFile({}, r.existingCover) ELSE {}
  IN
  /\ r.kind \in {"deleteFound", "deleteMissing", "deleteError"}
  /\ unlinks' = unlinks \cup removed
  /\ resp' = Response("delete", status, "", Undefined, {}, removed, status = 200)
  /\ reqs' = [reqs EXCEPT ![s] =
                [r EXCEPT !.kind = IF status = 200 THEN "answered200"
                                   ELSE IF status = 404 THEN "answered404"
                                   ELSE "answered500"]]
  /\ UNCHANGED <<books, files, now, nextId, cur, served>>

NextDeleteRace ==
  \/ Tick
  \/ \E p \in unlinks, ok \in BOOLEAN : FsUnlink(p, ok)
  \/ \E s \in Slots, id \in BookIds : DeleteArrive(s, id)
  \/ \E s \in Slots, ok \in BOOLEAN : FindByIdAndDelete(s, ok)
  \/ \E s \in Slots : DeleteRespond(s)

SpecDeleteRace == InitDeleteRace /\ [][NextDeleteRace]_vars

(***************************************************************************)
(* The in-memory prototype: the array of models/books.js and the router    *)
(* over it. In SpecMemory books is that array, a sequence of objects with  *)
(* the keys id, title, author and year; its handlers are synchronous, so a *)
(* request is one step.                                                    *)
(***************************************************************************)
\* An object of the array; titles and authors are abbreviated.
MemBook(id, title, author, year) ==
  [id |-> Num(id), title |-> Str(<<title>>), author |-> Str(<<author>>),
   year |-> Num(year)]

\* let books = [...]: the four books the module starts with.
InitialBooks ==
  <<MemBook(1, "P", "G", 1923), MemBook(2, "S", "T", 1966),
    MemBook(3, "W", "M", 1956), MemBook(4, "C", "A", 1984)>>

InitMemory ==
  /\ books = InitialBooks
  /\ files = {}
  /\ unlinks = {}
  /\ now = 1
  /\ nextId = 1
  /\ cur = NoReq
  /\ reqs = [s \in Slots |-> NoReq]
  /\ resp = NoResp
  /\ served = 0

RECURSIVE MaxId(_)
MaxId(bs) ==
  IF bs = <<>> THEN 0
  ELSE LET m == MaxId(Tail(bs)) IN IF Head(bs).id[2] > m THEN Head(bs).id[2] ELSE m

GenerateNewId_Length(bs) == Len(bs) + 1

\* generateNewId: one more than the largest id of the array, 1 when empty.
GenerateNewId(bs) == MaxId(bs) + 1

\* The longest prefix of s that consists of digits.
RECURSIVE DigitPrefix(_)
DigitPrefix(s) ==
  IF s # <<>> /\ IsDigit(Head(s)) THEN <<Head(s)>> \o DigitPrefix(Tail(s)) ELSE <<>>

\* parseInt(s, 10): leading blanks and one sign are skipped, the digits that
\* follow are read, what comes after them is ignored; NaN without a digit.
ParseInt(s) ==
  LET t == TrimLeft(s)
      signed == t # <<>> /\ t[1] \in {"-", "+"}
      d == DigitPrefix(IF signed THEN Tail(t) ELSE t)
  IN IF d = <<>> THEN NaN
     ELSE IF signed /\ t[1] = "-" THEN Num(0 - DecimalValue(d))
     ELSE Num(DecimalValue(d))

\* books.findIndex((book) => book.id === bookId), counted from 1; 0 for -1.
FindIndex(bs, bookId) ==
  IF \E i \in 1..Len(bs) : bs[i].id = bookId
    THEN CHOOSE i \in 1..Len(bs) :
           bs[i].id = bookId /\ \A j \in 1..(i - 1) : bs[j].id # bookId
  ELSE 0

\* req.body.key: undefined for a key the body does not have.
Get(v) == IF v = Absent THEN Undefined ELSE v

\* typeof v === "number".
IsNumber(v) == v = NaN \/ (Len(v) = 2 /\ v[1] = "num")

\* A JSON body with the keys title, author, year and id, each present or
\* Absent.
MemBody(title, author, year, id) ==
  [title |-> title, author |-> author, year |-> year, id |-> id]

\* The status POST / answers.
MemPostStatus(body) ==
  IF Falsy(Get(body.title)) \/ Falsy(Get(body.author)) THEN 400
  ELSE IF Get(body.year) # Undefined /\ ~IsNumber(body.year) THEN 400
  ELSE 201

\* { ...books[bookIndex], ...req.body, id: bookId }.
Spread(book, body, bookId) ==
  [id |-> bookId,
   title |-> IF body.title # Absent THEN body.title ELSE book.title,
   author |-> IF body.author # Absent THEN body.author ELSE book.author,
   year |-> IF body.year # Absent THEN body.year ELSE book.year]

\* books.splice(bookIndex, 1).
Splice(bs, i) == SubSeq(bs, 1, i - 1) \o SubSeq(bs, i + 1, Len(bs))

\* The bodies a client posts or puts.
MemBodies ==
  {MemBody(Str(<<"N">>), Str(<<"A">>), Num(2023), Absent),
   MemBody(Str(<<"N">>), Str(<<"A">>), Absent, Num(1)),
   MemBody(Absent, Str(<<"A">>), Absent, Absent),
   MemBody(Str(<<"N">>), Str(<<"A">>), Str(<<"x">>), Absent),
   MemBody(Absent, Absent, Absent, Num(2)),
   MemBody(Absent, Absent, Absent, Absent)}

\* req.params.id.
MemParams == {<<"1">>, <<"3">>, <<"4">>, <<"5">>, <<"4", "x">>, <<"x">>}

\* router.post("/").
MemPost(body) ==
  LET status == MemPostStatus(body)
      newBook == [id |-> Num(GenerateNewId(books)), title |-> Get(body.title),
                  author |-> Get(body.author), year |-> Get(body.year)]
  IN
  /\ served < MaxRequests
  /\ books' = IF status = 201 THEN Append(books, newBook) ELSE books
  /\ resp' = Response("create", status, "", Undefined, {}, {}, status = 201)
  /\ served' = served + 1
  /\ UNCHANGED <<files, unlinks, now, nextId, cur, reqs>>

\* router.put("/:id").
MemPut(param, body) ==
  LET bookId == ParseInt(param)
      bookIndex == FindIndex(books, bookId)
      status == IF bookIndex = 0 THEN 404
                ELSE IF Get(body.year) # Undefined /\ ~IsNumber(body.year) THEN 400
                ELSE 200
  IN
  /\ served < MaxRequests
  /\ books' = IF status = 200
                THEN [books EXCEPT ![bookIndex] = Spread(books[bookIndex], body, bookId)]
              ELSE books
  /\ resp' = Response("update", status, "", Undefined, {}, {}, status = 200)
  /\ served' = served + 1
  /\ UNCHANGED <<files, unlinks, now, nextId, cur, reqs>>

\* router.delete("/:id").
MemDelete(param) ==
  LET bookIndex == FindIndex(books, ParseInt(param))
      status == IF bookIndex = 0 THEN 404 ELSE 200
  IN
  /\ served < MaxRequests
  /\ books' = IF status = 200 THEN Splice(books, bookIndex) ELSE books
  /\ resp' = Response("delete", status, "", Undefined, {}, {}, status = 200)
  /\ served' = served + 1
  /\ UNCHANGED <<files, unlinks, now, nextId, cur, reqs>>

NextMemory ==
  \/ \E b \in MemBodies : MemPost(b)
  \/ \E p \in MemParams, b \in MemBodies : MemPut(p, b)
  \/ \E p \in MemParams : MemDelete(p)

SpecMemory == InitMemory /\ [][NextMemory]_vars

(***************************************************************************)
(* Properties.                                                             *)
(***************************************************************************)
\* The cover image a book references, if any, is a file of uploads/.
Resolves(book) == Falsy(book.coverImage) \/ book.coverImage \in files

\* C1: in every reachable state, every stored book's coverImage, when
\* present, refers to a file that exists in the attachment store.
C1_NoDanglingReference == \A i \in DOMAIN books : Resolves(books[i])

\* The step answers a PUT /books/:id before findByIdAndUpdate is called.
UpdateRejectStep == cur.kind = "update" /\ resp'.kind = "update"

\* The step runs findByIdAndUpdate for the update of slot s and answers.
UpdateCommitStep(s) == reqs[s] # NoReq /\ reqs'[s] = NoReq

\* The paths a step has asked deleteUploadedFile to delete.
Deleted(r) == r.cleaned \cup r.removed

\* TRUE when some book references path p.
Referenced(coll, p) == \E i \in DOMAIN coll : coll[i].coverImage = p

\* C2: a step of updateBook asks for the deletion of the file that the
\* book's previous coverImage names only if that step has committed the
\* record update; a rejected or failed update deletes no previous image.
C2_OldDeletedOnlyAfterCommit ==
  [][/\ (UpdateRejectStep /\ cur.bookId \in DOMAIN books)
          => books[cur.bookId].coverImage \notin Deleted(resp')
     /\ \A s \in Slots :
          (UpdateCommitStep(s) /\ reqs[s].existingCover \in Deleted(resp'))
            => resp'.written]_vars

\* C3: when an update that carries an upload is answered success, the book
\* references the upload's path, the uploaded file is in the store, and the
\* previous image, if there was one under another path, is gone or its
\* deletion has been issued.
C3_ReplaceCompletes ==
  [][\A s \in Slots :
       (UpdateCommitStep(s) /\ resp'.status = 200 /\ reqs[s].newPath # Undefined)
         => /\ books'[reqs[s].bookId].coverImage = reqs[s].newPath
            /\ reqs[s].newPath \in files'
            /\ (~Falsy(reqs[s].existingCover)
                /\ reqs[s].existingCover # reqs[s].newPath)
                 => (reqs[s].existingCover \notin files'
                     \/ reqs[s].existingCover \in unlinks')]_vars

\* C4: when findByIdAndUpdate finds no book (it was deleted after findById
\* read it), the update is answered 404 and the upload, if any, is deleted.
C4_LostRaceNotFound ==
  (resp.kind = "update" /\ resp.cause = "Book not found after update attempt")
    => /\ resp.status = 404
       /\ resp.newPath # Undefined => resp.newPath \in resp.cleaned

\* TRUE when the body supplies no title, author or year and no clear flag.
NoChanges(updateData) ==
  /\ updateData.title = Undefined
  /\ updateData.author = Undefined
  /\ updateData.year = Undefined
  /\ ~ClearRequested(updateData)

\* C5: an update of an existing book by its owner or an admin that supplies
\* no title, author or year, no upload and no clear flag is answered 400, and
\* neither the collection nor the upload directory changes.
C5_NoOpRejected ==
  [][(/\ cur.kind = "update"
      /\ cur.bookId \in DOMAIN books
      /\ MayUpdate(books[cur.bookId], cur.user, Role(cur.user))
      /\ NoChanges(cur.data)
      /\ ~cur.hasFile
      /\ resp'.error # "findById failed")
       => /\ resp'.status = 400
          /\ books' = books
          /\ files' = files
          /\ unlinks' = unlinks]_vars

\* The messages of the errors that answer a failure of the database.
DbFailures == {"findById failed", "Database query failed while updating book."}

\* C6 as claimed: unless the database fails, the repeat of an update without
\* upload that has just succeeded is rejected as a no-op ("No update data
\* provided").
C6_RepeatRejected ==
  (resp.kind = "update" /\ resp.repeat /\ resp.error \notin DbFailures)
    => resp.error = "No update data provided"

\* C6: the repeat of an update without upload that has just succeeded is not
\* rejected as a no-op: it is never answered "No update data provided" nor
\* 400, only success, or 404 or 500 when the book is gone or the database
\* fails.
C6_RepeatAccepted ==
  (resp.kind = "update" /\ resp.repeat)
    => /\ resp.error # "No update data provided"
       /\ resp.status \in {200, 404, 500}

\* A repeated update has been answered success again.
C6_RepeatSucceeds ==
  /\ resp.kind = "update"
  /\ resp.repeat
  /\ resp.status = 200
  /\ resp.written
  /\ resp.req.data.title # Undefined

\* C7: when POST /books fails (title or author missing, year not a number,
\* save rejected), no book is added and, if the request carried an upload,
\* deleteUploadedFile has been called for it before the answer.
C7_FailedCreateCleansUp ==
  [][(cur.kind = "create" /\ resp'.status # 201)
       => /\ books' = books
          /\ cur.hasFile => /\ Filename(now) \in resp'.cleaned
                            /\ Filename(now) \in unlinks']_vars

\* A create with an upload has failed and the upload's deletion is issued.
C7_FailedCreateWithUpload ==
  /\ resp.kind = "create"
  /\ resp.status \in {400, 500}
  /\ resp.newPath # Undefined
  /\ resp.newPath \in unlinks

\* C8: when PUT /books/:id is rejected before findByIdAndUpdate is called
\* (invalid id, book not found, neither owner nor admin, year not a number),
\* no book changes and, if the request carried an upload, deleteUploadedFile
\* has been called for it.
C8_RejectedUpdateCleansUp ==
  [][UpdateRejectStep
       => /\ books' = books
          /\ cur.hasFile => /\ Filename(now) \in resp'.cleaned
                            /\ Filename(now) \in unlinks']_vars

\* An update with an upload has been rejected before the write and the
\* upload's deletion is issued.
C8_RejectedUpdateWithUpload ==
  /\ resp.kind = "update"
  /\ resp.cause = ""
  /\ resp.status \in {400, 403, 404}
  /\ resp.newPath # Undefined
  /\ resp.newPath \in unlinks
  /\ ~resp.written

\* C9: when the record update of updateBook fails (database error or
\* validation error), the upload is deleted and, if nothing was written, the
\* previous image is not deleted and the book is as it was; no path that the
\* failure path deletes is referenced by a book.
C9_FailedCommitKeepsPrevious ==
  [][\A s \in Slots :
       (/\ UpdateCommitStep(s)
        /\ resp'.status # 200
        /\ resp'.cause # "Book not found after update attempt")
         => /\ reqs[s].newPath # Undefined => reqs[s].newPath \in resp'.cleaned
            /\ ~resp'.written
                 => /\ reqs[s].existingCover \notin Deleted(resp')
                    /\ books' = books
            /\ \A p \in resp'.cleaned : ~Referenced(books', p)]_vars

\* role admin, or the owner of the book.
Permitted(book, user) == Role(user) = "admin" \/ book.createdBy = user

\* C10 as claimed: unless the database fails, GET and PUT on an existing
\* book succeed exactly when the identity is admin or owner; another identity
\* gets 404 for GET and 403 for PUT, and the book is unchanged.
C10_SucceedIffPermitted ==
  [][/\ (cur.kind = "get" /\ cur.bookId \in DOMAIN books /\ resp'.status # 500)
          => resp'.status = IF Permitted(books[cur.bookId], cur.user) THEN 200 ELSE 404
     /\ (/\ cur.kind = "update"
         /\ cur.bookId \in DOMAIN books
         /\ resp'.error # "findById failed")
          => IF Permitted(books[cur.bookId], cur.user)
               THEN resp' = NoResp
             ELSE resp'.status = 403 /\ books' = books
     /\ \A s \in Slots :
          (/\ UpdateCommitStep(s)
           /\ reqs[s].bookId \in DOMAIN books
           /\ resp'.cause # "query failed")
            => resp'.status = 200]_vars

\* C10: on an existing book that the lookup returns, GET is answered 200
\* when the identity is admin or owner and 404 otherwise; PUT is answered
\* 403 exactly when the identity is neither, and then nothing is written; no
\* step changes a book on behalf of another identity.
C10_Authorization ==
  [][/\ (cur.kind = "get" /\ cur.bookId \in DOMAIN books /\ resp'.status # 500)
          => /\ resp'.status = IF Permitted(books[cur.bookId], cur.user)
                                 THEN 200 ELSE 404
             /\ books' = books
     /\ (/\ cur.kind = "update"
         /\ cur.bookId \in DOMAIN books
         /\ resp'.error # "findById failed")
          => IF Permitted(books[cur.bookId], cur.user)
               THEN resp'.status # 403
             ELSE resp'.status = 403 /\ books' = books /\ reqs' = reqs
     /\ \A s \in Slots :
          (UpdateCommitStep(s) /\ reqs[s].bookId \in DOMAIN books)
            => /\ Permitted(books[reqs[s].bookId], reqs[s].user)
               /\ resp'.status # 403]_vars

\* An identity that is neither admin nor owner has been refused an update of
\* an existing book.
C10_Refused ==
  /\ resp.kind = "update"
  /\ resp.status = 403
  /\ ~resp.written
  /\ DOMAIN books # {}

\* C11: a DELETE /books/:id from an identity whose role is not admin, the
\* book's owner included, is answered 403 whatever the id, and removes no
\* book and no file.
C11_DeleteIsAdminOnly ==
  [][(cur.kind = "delete" /\ Role(cur.user) # "admin")
       => /\ resp'.status = 403
          /\ books' = books
          /\ files' = files
          /\ unlinks' = unlinks]_vars

\* A delete has been refused while a book is stored.
C11_DeleteRefused ==
  /\ resp.kind = "delete"
  /\ resp.status = 403
  /\ resp.removed = {}
  /\ DOMAIN books # {}

\* The body's coverImage field is the clear sentinel: "" or null.
Sentinel(updateData) == updateData.coverImageAction \in {Str(<<>>), Null}

\* C12: when an update with the clear sentinel and no upload, on a book that
\* had a cover image when updateBook read it, is answered success, the book
\* has no cover image and the deletion of the previous file has been issued
\* by the step that wrote the book.
C12_ClearRemovesCover ==
  [][\A s \in Slots :
       (/\ UpdateCommitStep(s)
        /\ resp'.status = 200
        /\ Sentinel(reqs[s].data)
        /\ reqs[s].newPath = Undefined
        /\ ~Falsy(reqs[s].existingCover))
         => /\ resp'.written
            /\ Falsy(books'[reqs[s].bookId].coverImage)
            /\ reqs[s].existingCover \in resp'.removed
            /\ reqs[s].existingCover \in unlinks']_vars

\* A clear of a book that had a cover image has been answered success.
C12_Cleared ==
  /\ resp.kind = "update"
  /\ resp.status = 200
  /\ resp.newPath = Undefined
  /\ resp.removed # {}
  /\ resp.removed \subseteq unlinks
  /\ Sentinel(resp.req.data)

\* C13: the cover image an update writes is decided as Replace, Clear or
\* Keep in that order: with an upload the book references the upload's path,
\* even when the body also carries the clear sentinel; without upload and
\* with the sentinel it references nothing; otherwise it keeps its cover.
C13_DecisionPriority ==
  [][\A s \in Slots :
       (UpdateCommitStep(s) /\ resp'.written)
         => books'[reqs[s].bookId].coverImage =
              IF reqs[s].newPath # Undefined THEN reqs[s].newPath
              ELSE IF Sentinel(reqs[s].data) THEN Null
              ELSE books[reqs[s].bookId].coverImage]_vars

\* An update with both an upload and the clear sentinel has been answered
\* success and a book references the upload.
C13_ReplaceWins ==
  /\ resp.kind = "update"
  /\ resp.status = 200
  /\ resp.newPath # Undefined
  /\ Sentinel(resp.req.data)
  /\ Referenced(books, resp.newPath)

\* C14: when an update without upload whose body has no coverImage field is
\* answered success, the book keeps its cover image, no deletion is issued,
\* and the title, author and numeric year the body supplies are written.
C14_KeepLeavesCover ==
  [][\A s \in Slots :
       (/\ UpdateCommitStep(s)
        /\ resp'.status = 200
        /\ reqs[s].newPath = Undefined
        /\ reqs[s].data.coverImageAction = Undefined)
         => LET d == reqs[s].data
                before == books[reqs[s].bookId]
                after == books'[reqs[s].bookId]
            IN /\ after.coverImage = before.coverImage
               /\ Deleted(resp') = {}
               /\ unlinks' = unlinks
               /\ files' = files
               /\ d.title # Undefined => after.title = d.title
               /\ d.author # Undefined => after.author = d.author
               /\ (d.year # Undefined /\ Trim(d.year[2]) # <<>>)
                    => after.year = Number(d.year[2])]_vars

\* An update of the title alone has been answered success on a book that
\* has, and keeps, a cover image.
C14_KeptCover ==
  /\ resp.kind = "update"
  /\ resp.status = 200
  /\ resp.newPath = Undefined
  /\ resp.req.data.coverImageAction = Undefined
  /\ resp.req.data.title # Undefined
  /\ resp.req.bookId \in DOMAIN books
  /\ books[resp.req.bookId].title = resp.req.data.title
  /\ ~Falsy(books[resp.req.bookId].coverImage)
  /\ resp.removed = {}

\* C15: an update that is answered 400, 403 or 404 leaves the collection as
\* it is and has deleted nothing that was stored before the request: it has
\* marked no old image for deletion, and what it deleted as its own upload
\* was not there before.
C15_FailedUpdateTouchesNothing ==
  [][(resp'.kind = "update" /\ resp'.status \in {400, 403, 404})
       => /\ books' = books
          /\ resp'.removed = {}
          /\ (UpdateRejectStep => Deleted(resp') \cap files = {})]_vars

\* The paths multer gives the uploads.
StoreKeys == {Filename(t) : t \in 1..MaxClock}

C17_RecordRemovedFirst ==
  [][cur.kind = "delete"
       => /\ files' = files
          /\ unlinks' = unlinks \cup resp'.removed
          /\ resp'.removed # {}
               => /\ cur.bookId \in DOMAIN books
                  /\ cur.bookId \notin DOMAIN books'
                  /\ resp'.removed = {books[cur.bookId].coverImage}
                  /\ resp'.status = 200
          /\ cur.bookId \notin DOMAIN books => resp'.removed = {}]_vars

\* A delete has removed a book and asked for the deletion of its image, which
\* is still in uploads/.
C17_ImageAfterRecord ==
  /\ resp.kind = "delete"
  /\ resp.status = 200
  /\ resp.removed # {}
  /\ resp.removed \subseteq unlinks \cap files
  /\ ~\E i \in DOMAIN books : books[i].coverImage \in resp.removed

\* The ids of the books that have been deleted: handed out by a create and
\* no longer in the collection.
DeletedIds == {i \in BookIds : i < nextId /\ i \notin DOMAIN books}

\* C18: a delete answered 200 leaves one book fewer, without the book of its
\* id; a deleted id never comes back, and a get for it, by any identity, is
\* answered 404 when the database answers; a delete by an admin of a
\* well-formed id that has no book is answered 404 when the database answers
\* and changes nothing.
C18_DeletedStaysNotFound ==
  [][/\ (cur.kind = "delete" /\ resp'.status = 200)
          => /\ Cardinality(DOMAIN books') = Cardinality(DOMAIN books) - 1
             /\ cur.bookId \in DOMAIN books \ DOMAIN books'
     /\ \A i \in DeletedIds : i \notin DOMAIN books'
     /\ (cur.kind = "get" /\ cur.bookId \in DeletedIds /\ resp'.status # 500)
          => resp'.status = 404
     /\ (/\ cur.kind = "delete"
         /\ Role(cur.user) = "admin"
         /\ IsValidObjectId(cur.bookId)
         /\ cur.bookId \notin DOMAIN books
         /\ resp'.status # 500)
          => /\ resp'.status = 404
             /\ books' = books
             /\ files' = files
             /\ unlinks' = unlinks]_vars

\* An admin has asked for a book that was deleted and has been answered 404.
C18_AdminGetsNotFound ==
  /\ resp.kind = "get"
  /\ resp.status = 404
  /\ Role(resp.req.user) = "admin"
  /\ resp.req.bookId \in DeletedIds

\* C19: an fs.unlink that completes without removing its file changes no
\* book and no request and answers nobody; and the step that asks for the
\* deletion of an old image or of a deleted book's image has answered 200
\* with its write done, whatever becomes of the deletion.
C19_UnlinkFailureIsSilent ==
  [][/\ \A p \in unlinks :
          (unlinks' = unlinks \ {p} /\ files' = files)
            => /\ books' = books
               /\ reqs' = reqs
               /\ cur' = cur
               /\ resp' = NoResp
     /\ (resp'.kind \in {"update", "delete"} /\ resp'.removed # {})
          => /\ resp'.status = 200
             /\ resp'.written
             /\ resp'.removed \subseteq unlinks']_vars

\* A book created with an upload has been deleted, the fs.unlink of its
\* image has completed, and the image is still in uploads/.
C19_DeletedDespiteFailure ==
  /\ served = 2
  /\ DeletedIds = {1}
  /\ unlinks = {}
  /\ files # {}
  /\ cur = NoReq
  /\ resp = NoResp

\* C20: a request is handed to the book routes only with the good token of a
\* user that exists; one that authMiddleware refuses is answered 401, is
\* handed to no route, stores no upload and changes no book and no file.
C20_ResolvedIdentityRequired ==
  [][/\ cur' # NoReq => cur'.credential = "valid"
     /\ \A s \in Slots : reqs'[s] # NoReq => reqs'[s].credential = "valid"
     /\ resp'.kind = "auth"
          => /\ resp'.status = 401
             /\ cur' = NoReq
             /\ reqs' = reqs
             /\ books' = books
             /\ files' = files
             /\ unlinks' = unlinks]_vars

\* A request with the token of a user that no longer exists has been
\* answered 401 while the collection holds a book with an image.
C20_DeletedUserRefused ==
  /\ resp.kind = "auth"
  /\ resp.status = 401
  /\ resp.error = "Unauthorized: User not found"
  /\ \E i \in DOMAIN books : books[i].coverImage \in files

\* C21: GET /books answered 200 returns every book to an admin and to any
\* other identity exactly the books whose createdBy it is, and changes
\* nothing.
C21_ListIsVisibleSet ==
  [][(cur.kind = "list" /\ resp'.status = 200)
       => /\ resp'.listed =
               IF Role(cur.user) = "admin" THEN DOMAIN books
               ELSE {i \in DOMAIN books : books[i].createdBy = cur.user}
          /\ \A i \in DOMAIN books :
               (Role(cur.user) # "admin" /\ books[i].createdBy # cur.user)
                 => i \notin resp'.listed
          /\ books' = books
          /\ files' = files]_vars

\* A user who is not an admin has listed the books and has been returned its
\* own book and not the book of another user.
C21_OwnBooksOnly ==
  /\ resp.kind = "list"
  /\ resp.status = 200
  /\ Role(resp.req.user) # "admin"
  /\ resp.listed # {}
  /\ resp.listed # DOMAIN books
  /\ \A i \in DOMAIN books : i \in resp.listed <=> books[i].createdBy = resp.req.user

\* The year of every book is undefined or an integer from MinYear to MaxYear.
YearsInRange ==
  \A i \in DOMAIN books :
    \/ books[i].year = Undefined
    \/ /\ books[i].year[1] = "num"
       /\ books[i].year[2] >= MinYear
       /\ books[i].year[2] <= MaxYear

Quiescent ==
  /\ cur = NoReq
  /\ \A s \in Slots : reqs[s] = NoReq
  /\ unlinks = {}

\* C23: when every request has been answered and every fs.unlink has
\* completed, none having failed, every file of uploads/ is the cover image
\* of some book.
C23_NoOrphanedFile ==
  Quiescent => \A p \in files : Referenced(books, p)

\* The step of the S3 updateBook from findByIdAndUpdate on, for the request
\* of slot s, when it does not answer 200.
S3FailedCommitStep(s) ==
  /\ reqs[s].kind = "update"
  /\ reqs'[s] = NoReq
  /\ resp'.kind = "update"
  /\ resp'.status # 200

\* C24: the S3 updateBook removes no key from the bucket before
\* findByIdAndUpdate has run, and when findByIdAndUpdate fails or finds no
\* book, the key the book had when the request read it is still in the
\* bucket if it was there then and the book still names it.
C24_OldKeyDeletedAfterCommit ==
  [][/\ cur.kind = "update" => files \subseteq files'
     /\ \A s \in Slots :
          (/\ S3FailedCommitStep(s)
           /\ reqs[s].bookId \in DOMAIN books'
           /\ IsS3Key(reqs[s].existingCover)
           /\ books'[reqs[s].bookId].coverImage = reqs[s].existingCover)
          => reqs[s].existingCover \in files']_vars

\* C25: when the S3 updateBook has uploaded a file and findByIdAndUpdate
\* then fails or finds no book, the uploaded object is no longer in the
\* bucket once the request is answered.
C25_FailedUpdateDeletesUpload ==
  [][\A s \in Slots :
       (S3FailedCommitStep(s) /\ reqs[s].newPath # Undefined)
         => reqs[s].newPath \notin files']_vars

\* Values a coverImage can hold that are no key of the prefix.
ForeignValues == {LegacyPath, Str(<<"k">>), Str(<<>>), Undefined, Null}

\* C26: the S3 handlers delete only keys that start with book-covers/:
\* deleteFileFromS3 leaves the bucket as it is for any other value, an
\* object under another key is never removed, and what an update or a delete
\* marks for deletion is always such a key.
C26_OnlyManagedKeysDeleted ==
  /\ LegacyPath \in files
  /\ \A v \in ForeignValues, ok \in BOOLEAN : DeleteFileFromS3(files, v, ok) = files
  /\ resp.kind \in {"update", "updateKey", "delete"}
       => \A k \in resp.removed : IsS3Key(k)

\* A book whose coverImage is a legacy path has been asked to drop its cover
\* through updateBookWithS3Key, and nothing was marked or deleted.
C26_LegacyValueLeftAlone ==
  /\ resp.kind = "updateKey"
  /\ resp.status = 200
  /\ resp.req.data.coverImageAction = Str(<<>>)
  /\ resp.req.bookId \in DOMAIN books
  /\ books[resp.req.bookId].coverImage = LegacyPath
  /\ resp.removed = {}
  /\ LegacyPath \in files

\* C27: an update never changes which books exist, any other book, or the
\* createdBy of its book (the id is the key of the collection); one answered
\* 200 changes title, author and year only when the body supplies them, and
\* the cover image only with an upload or a request to clear it. The sender
\* may be an admin who does not own the book, and the body may carry an id
\* and a createdBy of its own.
C27_OnlySuppliedFieldsChange ==
  [][\A s \in Slots :
       (UpdateCommitStep(s) /\ reqs[s].kind = "update")
         => LET r == reqs[s]
                id == r.bookId
            IN
            /\ DOMAIN books' = DOMAIN books
            /\ \A j \in DOMAIN books \ {id} : books'[j] = books[j]
            /\ id \in DOMAIN books
                 => /\ books'[id].createdBy = books[id].createdBy
                    /\ resp'.status = 200
                         => /\ books'[id].title # books[id].title
                                 => r.data.title # Undefined
                            /\ books'[id].author # books[id].author
                                 => r.data.author # Undefined
                            /\ books'[id].year # books[id].year
                                 => r.data.year # Undefined
                            /\ books'[id].coverImage # books[id].coverImage
                                 => \/ r.newPath # Undefined
                                    \/ r.data.coverImageAction \in {Str(<<>>), Null}]_vars

\* An admin has changed the title of a book of u1 with a body that names
\* another id and another creator; the book keeps its creator.
C27_AdminKeepsCreator ==
  /\ resp.kind = "update"
  /\ resp.status = 200
  /\ resp.req.user = "adm"
  /\ "id" \in DOMAIN resp.req.data
  /\ resp.req.data.id # resp.req.bookId
  /\ resp.req.bookId \in DOMAIN books
  /\ books[resp.req.bookId].createdBy = "u1"
  /\ books[resp.req.bookId].title = Str(<<"C">>)

\* C28: no two books name the same cover image file.
C28_CoverKeysDistinct ==
  \A i \in DOMAIN books, j \in DOMAIN books :
    (i # j /\ ~Falsy(books[i].coverImage))
      => books[i].coverImage # books[j].coverImage

\* The requests of the race for this book that findByIdAndDelete has given
\* the book to.
DeleteWinners(rq, id) ==
  {s \in Slots : rq[s].bookId = id /\ rq[s].kind \in {"deleteFound", "answered200"}}

\* C29: of the deletes of an admin that are in flight together for one book,
\* at most one is given the book by findByIdAndDelete; when all of them have
\* been answered 200 or 404 for the book that existed, exactly one was
\* answered 200; only the request answered 200 asks for the deletion of the
\* cover image, and a request answered 404 or 500 asks for none.
C29_OneDeleteWins ==
  [][/\ \A id \in BookIds : Cardinality(DeleteWinners(reqs', id)) <= 1
     /\ (\A s \in Slots : reqs'[s].bookId = 1
                          /\ reqs'[s].kind \in {"answered200", "answered404"})
          => Cardinality(DeleteWinners(reqs', 1)) = 1
     /\ \A s \in Slots :
          reqs'[s] # reqs[s]
            => /\ reqs'[s].kind = "answered200"
                    => unlinks' = unlinks \cup DeleteUploadedFile({}, reqs[s].existingCover)
               /\ reqs'[s].kind \in {"answered404", "answered500"}
                    => unlinks' = unlinks /\ resp'.removed = {}]_vars

\* Two deletes of the same book were in flight together: findByIdAndDelete
\* gave the book and its cover to one and nothing to the other, and neither
\* has been answered yet.
C29_BothInFlight ==
  \E s \in Slots, t \in Slots :
    /\ reqs[s].kind = "deleteFound"
    /\ reqs[t].kind = "deleteMissing"
    /\ reqs[s].bookId = reqs[t].bookId
    /\ ~Falsy(reqs[s].existingCover)

\* The ids of the array, in its order.
IdsOf(bs) == [i \in 1..Len(bs) |-> bs[i].id]

\* No two objects of the array have the same id.
IdsDistinct(bs) ==
  \A i \in 1..Len(bs), j \in 1..Len(bs) : i # j => bs[i].id # bs[j].id

\* C30: in the in-memory store the ids stay pairwise distinct; a POST
\* answered 201 appends one book whose id no stored book had, a POST
\* answered 400 leaves the array as it is, and a PUT leaves every id where
\* it was, whatever id the body carries.
C30_IdsStayDistinct ==
  [][/\ IdsDistinct(books) /\ IdsDistinct(books')
     /\ (resp'.kind = "create" /\ resp'.status = 201)
          => /\ Len(books') = Len(books) + 1
             /\ SubSeq(books', 1, Len(books)) = books
             /\ \A i \in 1..Len(books) : books[i].id # books'[Len(books')].id
     /\ (resp'.kind = "create" /\ resp'.status = 400) => books' = books
     /\ resp'.kind = "update" => IdsOf(books') = IdsOf(books)]_vars

\* After the book of id 3 was deleted, a POST has been given the id 5, and
\* the four stored ids are 1, 2, 4 and 5.
C30_IdAfterDelete ==
  /\ resp.kind = "create"
  /\ resp.status = 201
  /\ IdsOf(books) = <<Num(1), Num(2), Num(4), Num(5)>>

====
